---- MODULE Spec2Model ----
(***************************************************************************)
(* Occurrence resolution of erstelle_kalender.py: the override index, the  *)
(* component loop (cancellations, recurrence expansion, exclusions,        *)
(* additional dates), the override loop, the splitting of an occurrence    *)
(* into per-day segments, and the per-day sort of render_html.             *)
(*                                                                         *)
(* Time is counted in slots: a local calendar day has SlotsPerDay slots,   *)
(* slot 0 of a day is 00:00 (time.min).  An instant is an integer number   *)
(* of slots, a date is an integer number of days; day 0 is the Sunday      *)
(* before the visible week.  A zoned date-time is represented by the       *)
(* instant it denotes, so converting it to the local zone keeps the        *)
(* instant.  Feeds are well formed in that DTEND is never before DTSTART.  *)
(***************************************************************************)
EXTENDS Integers, Sequences, FiniteSets, TLC

\* ------------------------------------------------------------ bounds
SlotsPerDay == 2
MaxFeed == 3

\* ------------------------------------------------------------ time
monday_local == 1
WeekLength == 5

DateOf(t) == t \div SlotsPerDay
TimeOf(t) == t % SlotsPerDay
At(d, s) == d * SlotsPerDay + s

time_min == 0

start_of_week_local_dt == At(monday_local, time_min)
\* Friday 23:59:59: the last instant of Friday on the slot grid
end_of_week_local_dt == start_of_week_local_dt + (WeekLength - 1) * SlotsPerDay + (SlotsPerDay - 1)
friday_local == DateOf(start_of_week_local_dt + (WeekLength - 1) * SlotsPerDay)
week_days_local == {monday_local + k : k \in 0 .. (WeekLength - 1)}

\* ------------------------------------------------------------ raw ICS values
NoValue == [kind |-> "none"]
DateValue(d) == [kind |-> "date", d |-> d]
DateTime(d, s) == [kind |-> "datetime", t |-> At(d, s)]
IsSet(p) == p.kind # "none"
\* a property whose value cannot be read: reading it raises
Broken == [kind |-> "broken"]
IsBroken(p) == p.kind = "broken"
Duration(n) == [kind |-> "duration", n |-> n]
\* RRULE:FREQ=DAILY;INTERVAL=interval[;UNTIL=until]
Daily(interval, until) == [kind |-> "rrule", interval |-> interval, until |-> until]

\* to_local: DATE -> 00:00 of that day; DATETIME (naive = local, zoned =
\* converted) -> the instant itself
to_local(dt_raw) ==
    IF dt_raw.kind = "date" THEN At(dt_raw.d, time_min) ELSE dt_raw.t

is_all_day_component(component) ==
    IsSet(component.dtstart) /\ component.dtstart.kind = "date"

\* "%H:%M" of the time of day of an instant
FmtHM(t) ==
    LET h == (TimeOf(t) * 24) \div SlotsPerDay
    IN  (IF h < 10 THEN "0" ELSE "") \o ToString(h) \o ":00"

\* datetime.isoformat(): the date and the time of day, written out
isoformat(t) == <<DateOf(t), TimeOf(t)>>

\* ------------------------------------------------------------ text conversions
\* str.strip() on the texts the feeds use
Strip(s) ==
    CASE s = "b " -> "b"
      [] s = " u" -> "u"
      [] OTHER -> s

\* str.upper() on the status texts the feeds use
Upper(s) ==
    CASE s = "cancelled" -> "CANCELLED"
      [] s = "confirmed" -> "CONFIRMED"
      [] OTHER -> s

\* html.escape() on the summaries the feeds use
html_escape(s) ==
    CASE s = "a&b" -> "a&amp;b"
      [] s = "<x>" -> "&lt;x&gt;"
      [] OTHER -> s

\* str.lower() on the summaries the feeds use
Lower(s) ==
    CASE s = "A" -> "a"
      [] s = "X" -> "x"
      [] s = "Ohne Titel" -> "ohne titel"
      [] OTHER -> s

SummaryOf(component) ==
    html_escape(IF component.summary = "" THEN "Ohne Titel" ELSE component.summary)
LocationOf(component) == Strip(component.location)
UidOf(component) == Strip(component.uid)
StatusOf(component) == Upper(Strip(component.status))

\* uid or f"{summary}|{location}"
DedupId(uid, summary_str, location_str) ==
    IF uid # "" THEN uid ELSE summary_str \o "|" \o location_str
DedupKey(uid, summary_str, location_str, t) ==
    <<DedupId(uid, summary_str, location_str), isoformat(t)>>

\* ------------------------------------------------------------ add_event_local
\* One occurrence [start_local, end_local) written to every visible day it
\* touches, with the label of that day.  The labels are written in ASCII:
\* "Ganztaegig" for the all-day label, " - " for the dash of a range.
\* loop_end_date that steps back for all-day components only
LoopEndDate_all_day_only(all_day, start_local, end_local) ==
    IF all_day /\ end_local > start_local
    THEN DateOf(end_local) - 1
    ELSE DateOf(end_local)

\* loop_end_date that never steps back: DTEND taken as inclusive
LoopEndDate_end_inclusive(all_day, start_local, end_local) == DateOf(end_local)

\* the last day of the loop: DTEND is exclusive
LoopEndDate(all_day, start_local, end_local) ==
    IF (all_day \/ TimeOf(end_local) = time_min) /\ end_local > start_local
    THEN DateOf(end_local) - 1
    ELSE DateOf(end_local)

\* the label of day `current`
TimeStr(all_day, start_local, end_local, current) ==
    LET loop_end_date == LoopEndDate(all_day, start_local, end_local)
        same_day == DateOf(start_local) = DateOf(end_local)
        ends_midnight_next ==
            TimeOf(end_local) = time_min /\ DateOf(end_local) > DateOf(start_local)
    IN  IF all_day THEN "Ganztaegig"
        ELSE IF same_day THEN FmtHM(start_local) \o " - " \o FmtHM(end_local)
        ELSE IF ends_midnight_next /\ current = DateOf(start_local)
             THEN (IF TimeOf(start_local) = time_min THEN "Ganztaegig"
                   ELSE FmtHM(start_local) \o " - 00:00")
        ELSE IF current = DateOf(start_local) THEN "Start: " \o FmtHM(start_local)
        ELSE IF current = loop_end_date /\ TimeOf(end_local) > time_min
             THEN "Ende: " \o FmtHM(end_local)
        ELSE "Ganztaegig"

add_event_local(week_events, component, start_local, end_local, summary, location, days, event_uid) ==
    LET all_day == is_all_day_component(component)
        loop_end_date == LoopEndDate(all_day, start_local, end_local)
        time_str(current) == TimeStr(all_day, start_local, end_local, current)
        is_all(current) == all_day \/ time_str(current) = "Ganztaegig"
        event_data(current) ==
            IF event_uid # ""
            THEN [summary |-> summary, location |-> location,
                  time |-> time_str(current), is_all_day |-> is_all(current),
                  start_time |-> start_local, uid |-> event_uid]
            ELSE [summary |-> summary, location |-> location,
                  time |-> time_str(current), is_all_day |-> is_all(current),
                  start_time |-> start_local]
    IN  [d \in DOMAIN week_events |->
            IF d >= DateOf(start_local) /\ d <= loop_end_date /\ d \in days
            THEN Append(week_events[d], event_data(d))
            ELSE week_events[d]]

\* ev.get("uid") == uid, for a non-empty uid
EvUidIs(ev, uid) == "uid" \in DOMAIN ev /\ ev.uid = uid

\* ------------------------------------------------------------ registry
\* The registry state threaded through the loops: the day buckets, the two
\* key sets, the calls made on the registry so far (a history of what the
\* loops did, kept for the properties) and the error lines printed.
Call(op, key, src, start, end, summary, location, done) ==
    [op |-> op, key |-> key, src |-> src, start |-> start, end |-> end,
     summary |-> summary, location |-> location, done |-> done]

\* add_occurrence without its "if dedup_key in dedup_keys: return"
add_occurrence_without_dedup(st, component, src, occ_start_local, occ_end_local, summary_str) ==
    LET uid == UidOf(component)
        location_str == LocationOf(component)
        dedup_key == DedupKey(uid, summary_str, location_str, occ_start_local)
        call(done) == Call("register", dedup_key, src, occ_start_local,
                           occ_end_local, summary_str, location_str, done)
    IN  IF dedup_key \in st.cancelled_occurrences
        THEN [st EXCEPT !.calls = Append(@, call(FALSE))]
        ELSE [st EXCEPT
                !.dedup_keys = @ \cup {dedup_key},
                !.week_events = add_event_local(@, component, occ_start_local,
                                    occ_end_local, summary_str, location_str,
                                    week_days_local, uid),
                !.cancelled_occurrences = @ \ {dedup_key},
                !.calls = Append(@, call(TRUE))]

\* add_occurrence without its "if dedup_key in cancelled_occurrences: return"
add_occurrence_without_cancel_check(st, component, src, occ_start_local, occ_end_local, summary_str) ==
    LET uid == UidOf(component)
        location_str == LocationOf(component)
        dedup_key == DedupKey(uid, summary_str, location_str, occ_start_local)
        call(done) == Call("register", dedup_key, src, occ_start_local,
                           occ_end_local, summary_str, location_str, done)
    IN  IF dedup_key \in st.dedup_keys
        THEN [st EXCEPT !.calls = Append(@, call(FALSE))]
        ELSE [st EXCEPT
                !.dedup_keys = @ \cup {dedup_key},
                !.week_events = add_event_local(@, component, occ_start_local,
                                    occ_end_local, summary_str, location_str,
                                    week_days_local, uid),
                !.cancelled_occurrences = @ \ {dedup_key},
                !.calls = Append(@, call(TRUE))]

add_occurrence(st, component, src, occ_start_local, occ_end_local, summary_str) ==
    LET uid == UidOf(component)
        location_str == LocationOf(component)
        dedup_key == DedupKey(uid, summary_str, location_str, occ_start_local)
        call(done) == Call("register", dedup_key, src, occ_start_local,
                           occ_end_local, summary_str, location_str, done)
    IN  IF dedup_key \in st.cancelled_occurrences
        THEN [st EXCEPT !.calls = Append(@, call(FALSE))]
        ELSE IF dedup_key \in st.dedup_keys
        THEN [st EXCEPT !.calls = Append(@, call(FALSE))]
        ELSE [st EXCEPT
                !.dedup_keys = @ \cup {dedup_key},
                !.week_events = add_event_local(@, component, occ_start_local,
                                    occ_end_local, summary_str, location_str,
                                    week_days_local, uid),
                !.cancelled_occurrences = @ \ {dedup_key},
                !.calls = Append(@, call(TRUE))]

\* a CANCELLED branch without its dedup_keys.discard(cancel_key)
cancel_occurrence_keeps_registered(st, component, src) ==
    LET uid == UidOf(component)
        summary_str == SummaryOf(component)
        location_str == LocationOf(component)
        cancel_start_local ==
            IF IsSet(component.recid) THEN to_local(component.recid)
            ELSE to_local(component.dtstart)
        cancel_key == DedupKey(uid, summary_str, location_str, cancel_start_local)
        keep(ev) ==
            IF uid # ""
            THEN ~(ev.start_time = cancel_start_local /\ EvUidIs(ev, uid))
            ELSE ~(ev.start_time = cancel_start_local
                   /\ ev.summary = summary_str
                   /\ ev.location = location_str)
    IN  [st EXCEPT
            !.cancelled_occurrences = @ \cup {cancel_key},
            !.week_events = [d \in DOMAIN @ |-> SelectSeq(@[d], keep)],
            !.calls = Append(@, Call("cancel", cancel_key, src, cancel_start_local,
                                     cancel_start_local, summary_str, location_str,
                                     TRUE))]

\* a CANCELLED branch whose filter leaves the start instant out
cancel_occurrence_any_start(st, component, src) ==
    LET uid == UidOf(component)
        summary_str == SummaryOf(component)
        location_str == LocationOf(component)
        cancel_start_local ==
            IF IsSet(component.recid) THEN to_local(component.recid)
            ELSE to_local(component.dtstart)
        cancel_key == DedupKey(uid, summary_str, location_str, cancel_start_local)
        keep(ev) ==
            IF uid # ""
            THEN ~EvUidIs(ev, uid)
            ELSE ~(ev.summary = summary_str /\ ev.location = location_str)
    IN  [st EXCEPT
            !.cancelled_occurrences = @ \cup {cancel_key},
            !.dedup_keys = @ \ {cancel_key},
            !.week_events = [d \in DOMAIN @ |-> SelectSeq(@[d], keep)],
            !.calls = Append(@, Call("cancel", cancel_key, src, cancel_start_local,
                                     cancel_start_local, summary_str, location_str,
                                     TRUE))]

\* The CANCELLED branch of the component loop, for a component that has a
\* RECURRENCE-ID or a DTSTART.
cancel_occurrence(st, component, src) ==
    LET uid == UidOf(component)
        summary_str == SummaryOf(component)
        location_str == LocationOf(component)
        cancel_start_local ==
            IF IsSet(component.recid) THEN to_local(component.recid)
            ELSE to_local(component.dtstart)
        cancel_key == DedupKey(uid, summary_str, location_str, cancel_start_local)
        keep(ev) ==
            IF uid # ""
            THEN ~(ev.start_time = cancel_start_local /\ EvUidIs(ev, uid))
            ELSE ~(ev.start_time = cancel_start_local
                   /\ ev.summary = summary_str
                   /\ ev.location = location_str)
    IN  [st EXCEPT
            !.cancelled_occurrences = @ \cup {cancel_key},
            !.dedup_keys = @ \ {cancel_key},
            !.week_events = [d \in DOMAIN @ |-> SelectSeq(@[d], keep)],
            !.calls = Append(@, Call("cancel", cancel_key, src, cancel_start_local,
                                     cancel_start_local, summary_str, location_str,
                                     TRUE))]

\* except Exception: the error line is printed, what was registered stays
Fail(st, src) == [st EXCEPT !.stderr = Append(@, src)]

\* ------------------------------------------------------------ recurrence
RECURSIVE SortedSeq(_)
SortedSeq(S) ==
    IF S = {} THEN <<>>
    ELSE LET m == CHOOSE x \in S : \A y \in S : x <= y
         IN  <<m>> \o SortedSeq(S \ {m})

\* between() that leaves out an instant equal to `before`
rule_between_exclusive(rule, dtstart, after, before) ==
    SortedSeq({t \in after .. (before - 1) :
                 /\ t >= dtstart
                 /\ (t - dtstart) % (rule.interval * SlotsPerDay) = 0
                 /\ (IsSet(rule.until) => t <= to_local(rule.until))})

\* rrulestr(..., dtstart).between(after, before, inc=True) for a daily rule
rule_between(rule, dtstart, after, before) ==
    SortedSeq({t \in after .. before :
                 /\ t >= dtstart
                 /\ (t - dtstart) % (rule.interval * SlotsPerDay) = 0
                 /\ (IsSet(rule.until) => t <= to_local(rule.until))})

\* ------------------------------------------------------------ override index
InOverrides(overrides, key) == \E j \in 1 .. Len(overrides) : overrides[j].key = key

\* overrides[(uid, rec_local)] = component: a new key goes to the end of the
\* dict, a known key keeps its place and takes the new component
index_component(overrides, component, src) ==
    LET key == <<UidOf(component), to_local(component.recid)>>
        entry == [key |-> key, comp |-> component, src |-> src]
    IN  IF InOverrides(overrides, key)
        THEN [j \in 1 .. Len(overrides) |->
                IF overrides[j].key = key THEN entry ELSE overrides[j]]
        ELSE Append(overrides, entry)

\* ------------------------------------------------------------ component loop
RECURSIVE rrule_loop(_, _, _, _, _, _, _, _)
rrule_loop(st, component, src, occs, exdates_local, overrides, duration, summary_str) ==
    IF occs = <<>> THEN st
    ELSE LET occ_start_local == Head(occs)
             after ==
                IF occ_start_local \in exdates_local THEN st
                ELSE IF InOverrides(overrides, <<UidOf(component), occ_start_local>>)
                THEN st
                ELSE add_occurrence(st, component, src, occ_start_local,
                                    occ_start_local + duration, summary_str)
         IN  rrule_loop(after, component, src, Tail(occs), exdates_local,
                        overrides, duration, summary_str)

\* the RDATE loop; a value that cannot be read raises and ends the component
RECURSIVE rdate_loop(_, _, _, _, _, _, _)
rdate_loop(st, component, src, rdates, overrides, duration, summary_str) ==
    IF rdates = <<>> THEN st
    ELSE IF IsBroken(Head(rdates)) THEN Fail(st, src)
    ELSE LET r_local == to_local(Head(rdates))
             after ==
                IF InOverrides(overrides, <<UidOf(component), r_local>>) THEN st
                ELSE add_occurrence(st, component, src, r_local,
                                    r_local + duration, summary_str)
         IN  rdate_loop(after, component, src, Tail(rdates), overrides,
                        duration, summary_str)

\* DTEND/DURATION of a component that has a DTSTART
EndRaises(component) ==
    \/ IsBroken(component.dtend)
    \/ (~IsSet(component.dtend) /\ IsBroken(component.duration))
EndLocal(component, start_local) ==
    IF ~IsSet(component.dtend) /\ IsSet(component.duration)
    THEN start_local + component.duration.n
    ELSE to_local(IF IsSet(component.dtend) THEN component.dtend
                  ELSE component.dtstart)

IsCancelled(component) == StatusOf(component) = "CANCELLED"

\* the branch of the loop body a component takes
Skipped(component) ==
    IF IsCancelled(component)
    THEN ~IsSet(component.recid) /\ ~IsSet(component.dtstart)
    ELSE IsSet(component.recid) \/ ~IsSet(component.dtstart)
Raises(component) ==
    /\ ~IsCancelled(component)
    /\ ~Skipped(component)
    /\ \/ EndRaises(component)
       \/ (IsSet(component.rrule)
            /\ \/ IsBroken(component.rrule)
               \/ \E j \in 1 .. Len(component.exdate) : IsBroken(component.exdate[j]))
       \/ \E j \in 1 .. Len(component.rdate) : IsBroken(component.rdate[j])

\* duration = end_local - start_local, and the search window pulled back by it
DurationOf(component) ==
    EndLocal(component, to_local(component.dtstart)) - to_local(component.dtstart)
\* a search window that starts at Monday 00:00, without the pad
search_start_without_pad(component) == start_of_week_local_dt

search_start(component) ==
    LET duration == DurationOf(component)
        pad == IF duration > 0 THEN duration ELSE 0
    IN  start_of_week_local_dt - pad
search_end == end_of_week_local_dt
\* the EXDATE values, normalised
exdates_local(component) ==
    {to_local(component.exdate[j]) : j \in 1 .. Len(component.exdate)}
\* rule.between(search_start, search_end, inc=True)
rule_occurrences(component) ==
    rule_between(component.rrule, to_local(component.dtstart),
                 search_start(component), search_end)

\* the body of "for component in vevents" (with its try/except)
process_component(st, component, src, overrides) ==
    LET summary_str == SummaryOf(component)
    IN  IF IsCancelled(component)
        THEN (IF Skipped(component) THEN st
              ELSE cancel_occurrence(st, component, src))
        ELSE IF Skipped(component) THEN st
        ELSE IF EndRaises(component) THEN Fail(st, src)
        ELSE
          LET start_local == to_local(component.dtstart)
              end_local == EndLocal(component, start_local)
              duration == end_local - start_local
          IN  IF IsSet(component.rrule)
              THEN
                IF \E j \in 1 .. Len(component.exdate) : IsBroken(component.exdate[j])
                THEN Fail(st, src)
                ELSE IF IsBroken(component.rrule) THEN Fail(st, src)
                ELSE
                  rdate_loop(
                    rrule_loop(st, component, src, rule_occurrences(component),
                               exdates_local(component), overrides, duration,
                               summary_str),
                    component, src, component.rdate, overrides, duration,
                    summary_str)
              ELSE
                rdate_loop(
                    add_occurrence(st, component, src, start_local, end_local,
                                   summary_str),
                    component, src, component.rdate, overrides, duration,
                    summary_str)

\* ------------------------------------------------------------ override loop
OverrideSkipped(component) == IsCancelled(component) \/ ~IsSet(component.dtstart)
OverrideRaises(component) == ~OverrideSkipped(component) /\ EndRaises(component)

\* the override loop without its "if status == CANCELLED: continue"
process_override_without_status_check(st, entry) ==
    LET override_component == entry.comp
        summary_str == SummaryOf(override_component)
    IN  IF ~IsSet(override_component.dtstart) THEN st
        ELSE IF EndRaises(override_component) THEN Fail(st, entry.src)
        ELSE LET occ_start_local == to_local(override_component.dtstart)
                 occ_end_local == EndLocal(override_component, occ_start_local)
             IN  add_occurrence(st, override_component, entry.src,
                                occ_start_local, occ_end_local, summary_str)

\* the body of "for override_component in overrides.values()"
process_override(st, entry) ==
    LET override_component == entry.comp
        summary_str == SummaryOf(override_component)
    IN  IF OverrideSkipped(override_component) THEN st
        ELSE IF EndRaises(override_component) THEN Fail(st, entry.src)
        ELSE LET occ_start_local == to_local(override_component.dtstart)
                 occ_end_local == EndLocal(override_component, occ_start_local)
             IN  add_occurrence(st, override_component, entry.src,
                                occ_start_local, occ_end_local, summary_str)

\* ------------------------------------------------------------ render_html
\* the order of Python's str comparison on the lower-cased summaries in use
SummaryOrder == <<"&lt;x&gt;", "a", "a&amp;b", "a|b", "ohne titel", "x">>
StrRank(s) == CHOOSE r \in 1 .. Len(SummaryOrder) : SummaryOrder[r] = s

\* (not is_all_day, start_time, summary.lower()), compared as tuples
SortKeyLess(a, b) ==
    LET fa == IF a.is_all_day THEN 0 ELSE 1
        fb == IF b.is_all_day THEN 0 ELSE 1
        ra == StrRank(Lower(a.summary))
        rb == StrRank(Lower(b.summary))
    IN  \/ fa < fb
        \/ fa = fb /\ a.start_time < b.start_time
        \/ fa = fb /\ a.start_time = b.start_time /\ ra < rb

\* an insertion that puts the event before the events of equal key
RECURSIVE InsertSorted_before_equal(_, _)
InsertSorted_before_equal(sorted, ev) ==
    IF sorted = <<>> THEN <<ev>>
    ELSE IF ~SortKeyLess(Head(sorted), ev) THEN <<ev>> \o sorted
    ELSE <<Head(sorted)>> \o InsertSorted_before_equal(Tail(sorted), ev)

\* list.sort(key=...): stable
RECURSIVE InsertSorted(_, _)
InsertSorted(sorted, ev) ==
    IF sorted = <<>> THEN <<ev>>
    ELSE IF SortKeyLess(ev, Head(sorted)) THEN <<ev>> \o sorted
    ELSE <<Head(sorted)>> \o InsertSorted(Tail(sorted), ev)
RECURSIVE sort_events(_)
sort_events(events) ==
    IF events = <<>> THEN <<>>
    ELSE InsertSorted(sort_events(SubSeq(events, 1, Len(events) - 1)),
                      events[Len(events)])

render_html(week_events) ==
    [d \in DOMAIN week_events |->
        IF d \in monday_local .. friday_local
        THEN sort_events(week_events[d]) ELSE week_events[d]]

\* ------------------------------------------------------------ feeds
Component(uid, summary, location, status, recid, dtstart, dtend, duration, rrule, exdate, rdate) ==
    [uid |-> uid, summary |-> summary, location |-> location, status |-> status,
     recid |-> recid, dtstart |-> dtstart, dtend |-> dtend, duration |-> duration,
     rrule |-> rrule, exdate |-> exdate, rdate |-> rdate]

\* a VEVENT without RECURRENCE-ID and without RRULE
Single(uid, summary, location, dtstart, dtend, rdate) ==
    Component(uid, summary, location, "", NoValue, dtstart, dtend, NoValue,
              NoValue, <<>>, rdate)
\* a VEVENT with an RRULE
Series(uid, summary, location, dtstart, duration, rrule, exdate, rdate) ==
    Component(uid, summary, location, "CONFIRMED", NoValue, dtstart, NoValue,
              duration, rrule, exdate, rdate)
\* a VEVENT with a RECURRENCE-ID
Override(uid, summary, location, status, recid, dtstart, dtend) ==
    Component(uid, summary, location, status, recid, dtstart, dtend, NoValue,
              NoValue, <<>>, <<>>)
\* a VEVENT with STATUS:CANCELLED and no RECURRENCE-ID
Cancellation(uid, summary, location, status, dtstart) ==
    Component(uid, summary, location, status, NoValue, dtstart, NoValue, NoValue,
              NoValue, <<>>, <<>>)

Feeds(U) == UNION {[1 .. n -> U] : n \in 1 .. MaxFeed}

\* ------------------------------------------------------------ state
VARIABLES
    feed,                   \* vevents: the components of the feed, in feed order
    pc,                     \* the loop the run is in
    idx,                    \* the position of that loop
    overrides,              \* the override index, in dict order
    week_events,            \* day -> list of event dicts
    dedup_keys,             \* the registered keys
    cancelled_occurrences,  \* the cancelled keys
    calls,                  \* the registry calls made so far
    stderr                  \* the components whose error line was printed

vars == <<feed, pc, idx, overrides, week_events, dedup_keys,
          cancelled_occurrences, calls, stderr>>

St == [week_events |-> week_events, dedup_keys |-> dedup_keys,
       cancelled_occurrences |-> cancelled_occurrences, calls |-> calls,
       stderr |-> stderr]

EmptySt == [week_events |-> [d \in week_days_local |-> <<>>], dedup_keys |-> {},
            cancelled_occurrences |-> {}, calls |-> <<>>, stderr |-> <<>>]

SetSt(st) ==
    /\ week_events' = st.week_events
    /\ dedup_keys' = st.dedup_keys
    /\ cancelled_occurrences' = st.cancelled_occurrences
    /\ calls' = st.calls
    /\ stderr' = st.stderr

InitOn(U) ==
    /\ feed \in Feeds(U)
    /\ pc = "index"
    /\ idx = 1
    /\ overrides = <<>>
    /\ week_events = EmptySt.week_events
    /\ dedup_keys = {}
    /\ cancelled_occurrences = {}
    /\ calls = <<>>
    /\ stderr = <<>>

\* ------------------------------------------------------------ actions
\* "for component in vevents" building the override index
IndexStep ==
    IF idx < Len(feed) THEN idx' = idx + 1 /\ pc' = pc
    ELSE idx' = 1 /\ pc' = "main"

IndexOverride ==
    /\ pc = "index"
    /\ IsSet(feed[idx].recid)
    /\ overrides' = index_component(overrides, feed[idx], idx)
    /\ IndexStep
    /\ UNCHANGED <<feed, week_events, dedup_keys, cancelled_occurrences, calls, stderr>>

IndexSkip ==
    /\ pc = "index"
    /\ ~IsSet(feed[idx].recid)
    /\ IndexStep
    /\ UNCHANGED <<feed, overrides, week_events, dedup_keys,
                   cancelled_occurrences, calls, stderr>>

\* one pass of the component loop
MainStep ==
    /\ SetSt(process_component(St, feed[idx], idx, overrides))
    /\ IF idx < Len(feed) THEN idx' = idx + 1 /\ pc' = pc
       ELSE idx' = 1 /\ pc' = (IF overrides = <<>> THEN "render" ELSE "override")
    /\ UNCHANGED <<feed, overrides>>

CancelComponent ==
    /\ pc = "main"
    /\ IsCancelled(feed[idx]) /\ ~Skipped(feed[idx])
    /\ MainStep

SkipComponent ==
    /\ pc = "main"
    /\ Skipped(feed[idx])
    /\ MainStep

FailComponent ==
    /\ pc = "main"
    /\ Raises(feed[idx])
    /\ MainStep

RecurringComponent ==
    /\ pc = "main"
    /\ ~IsCancelled(feed[idx]) /\ ~Skipped(feed[idx]) /\ ~Raises(feed[idx])
    /\ IsSet(feed[idx].rrule)
    /\ MainStep

SingleComponent ==
    /\ pc = "main"
    /\ ~IsCancelled(feed[idx]) /\ ~Skipped(feed[idx]) /\ ~Raises(feed[idx])
    /\ ~IsSet(feed[idx].rrule)
    /\ MainStep

\* one pass of the override loop
OverrideStep ==
    /\ SetSt(process_override(St, overrides[idx]))
    /\ IF idx < Len(overrides) THEN idx' = idx + 1 /\ pc' = pc
       ELSE idx' = 1 /\ pc' = "render"
    /\ UNCHANGED <<feed, overrides>>

SkipOverride ==
    /\ pc = "override"
    /\ OverrideSkipped(overrides[idx].comp)
    /\ OverrideStep

FailOverride ==
    /\ pc = "override"
    /\ OverrideRaises(overrides[idx].comp)
    /\ OverrideStep

ApplyOverride ==
    /\ pc = "override"
    /\ ~OverrideSkipped(overrides[idx].comp) /\ ~OverrideRaises(overrides[idx].comp)
    /\ OverrideStep

\* render_html sorts every day's list in place
Render ==
    /\ pc = "render"
    /\ week_events' = render_html(week_events)
    /\ pc' = "done"
    /\ UNCHANGED <<feed, idx, overrides, dedup_keys, cancelled_occurrences,
                   calls, stderr>>

Next ==
    \/ IndexOverride
    \/ IndexSkip
    \/ CancelComponent
    \/ SkipComponent
    \/ FailComponent
    \/ RecurringComponent
    \/ SingleComponent
    \/ SkipOverride
    \/ FailOverride
    \/ ApplyOverride
    \/ Render

\* ------------------------------------------------------------ a whole run
RECURSIVE IndexAll(_, _, _)
IndexAll(ov, f, j) ==
    IF j > Len(f) THEN ov
    ELSE IndexAll(IF IsSet(f[j].recid) THEN index_component(ov, f[j], j) ELSE ov,
                  f, j + 1)
RECURSIVE MainAll(_, _, _, _)
MainAll(st, f, j, ov) ==
    IF j > Len(f) THEN st
    ELSE MainAll(process_component(st, f[j], j, ov), f, j + 1, ov)
RECURSIVE OverrideAll(_, _, _)
OverrideAll(st, ov, j) ==
    IF j > Len(ov) THEN st
    ELSE OverrideAll(process_override(st, ov[j]), ov, j + 1)

\* the day buckets erstelle_kalender_html hands to the page for feed f
Resolve(f) ==
    LET ov == IndexAll(<<>>, f, 1)
    IN  render_html(OverrideAll(MainAll(EmptySt, f, 1, ov), ov, 1).week_events)

\* ------------------------------------------------------------ the feeds checked
Sunday == monday_local - 1
Tuesday == monday_local + 1
Wednesday == monday_local + 2
Thursday == monday_local + 3
Noon == SlotsPerDay \div 2

\* Registry feeds: single events, cancellations, a series and its overrides,
\* several of them meeting on the key of Tuesday noon.
RegistryComponents ==
    { Single("", "a", "b", DateTime(Tuesday, Noon), DateTime(Thursday, Noon), <<>>),
      Single("u", "a", "b", DateTime(Tuesday, Noon), NoValue, <<>>),
      Single("a|b", "x", "", DateTime(Tuesday, Noon), DateTime(Wednesday, Noon), <<>>),
      Single("", "a", "b", DateTime(Tuesday, Noon), NoValue,
             <<DateTime(Wednesday, Noon), Broken>>),
      Cancellation("", "a", "b ", "cancelled", DateTime(Tuesday, Noon)),
      Cancellation("a|b", "", "", "CANCELLED", DateTime(Tuesday, Noon)),
      Override("u", "a", "b", "CANCELLED", DateTime(Tuesday, Noon),
               DateTime(Tuesday, Noon), NoValue),
      Override("u", "x", "", "", DateTime(Wednesday, Noon),
               DateTime(Wednesday, time_min), DateTime(Wednesday, Noon)),
      Override("u", "x", "", "", DateTime(Thursday, Noon),
               DateTime(Thursday, Noon), Broken),
      Series("u", "A", "b", DateTime(Sunday, Noon), Duration(1),
             Daily(1, NoValue), <<>>, <<>>) }

Init == InitOn(RegistryComponents)
Spec == Init /\ [][Next]_vars

\* Series feeds: daily series with exclusions and additional dates, an event
\* with additional dates only, overrides (moved, cancelled, unreadable) and a
\* cancellation of one instance.
Friday == monday_local + 4
SeriesComponents ==
    { Series("u", "A", "b", DateTime(Sunday, Noon), Duration(1),
             Daily(1, NoValue), <<>>, <<>>),
      Series("v", "x", "", DateValue(Sunday), NoValue,
             Daily(1, NoValue), <<DateValue(Wednesday)>>, <<>>),
      Series("v", "a", "", DateTime(monday_local, Noon), Duration(1),
             Daily(2, NoValue), <<DateTime(Wednesday, Noon)>>,
             <<DateTime(Wednesday, Noon), DateTime(Thursday, Noon)>>),
      Series("", "a", "b", DateTime(monday_local, Noon), Duration(1),
             Broken, <<>>, <<>>),
      Single("u", "a", "b", DateTime(Tuesday, Noon), NoValue,
             <<DateTime(Thursday, Noon)>>),
      Override("u", "x", "", "", DateTime(Tuesday, Noon),
               DateTime(Wednesday, Noon), DateTime(Thursday, time_min)),
      Override("u", "A", "b", "CANCELLED", DateTime(Thursday, Noon),
               DateTime(Thursday, time_min), NoValue),
      Override("u", "x", "", "", DateTime(Friday, Noon),
               DateTime(Friday, Noon), Broken),
      Cancellation("u", "", "", "CANCELLED", DateTime(Wednesday, Noon)) }

InitSeries == InitOn(SeriesComponents)
SpecSeries == InitSeries /\ [][Next]_vars

\* Span feeds: timed events that end at midnight one and two days after their
\* start, a timed event over three days, all-day events with an exclusive end
\* date, an overnight daily series with an exclusion, its overrides, the
\* cancellation of one of its instances, and an event whose end cannot be read.
Saturday == monday_local + 5
OneDay == SlotsPerDay
SpanComponents ==
    { Single("", "a", "", DateTime(Tuesday, Noon), DateTime(Wednesday, time_min), <<>>),
      Single("", "x", "", DateTime(Tuesday, time_min), DateTime(Wednesday, time_min), <<>>),
      Single("u", "A", "", DateTime(Tuesday, Noon), DateTime(Thursday, time_min), <<>>),
      Single("v", "a", "b", DateTime(Tuesday, Noon), DateTime(Thursday, Noon), <<>>),
      Single("w", "x", "", DateValue(Sunday), DateValue(Wednesday), <<>>),
      Single("w", "X", "", DateValue(Thursday), DateValue(Saturday), <<>>),
      Single("", "a", "", DateTime(Tuesday, Noon), Broken, <<>>),
      Series("s", "a", "", DateTime(Sunday, Noon), Duration(OneDay),
             Daily(1, NoValue), <<DateTime(Wednesday, Noon)>>, <<>>),
      Override("s", "x", "", "", DateTime(Thursday, Noon),
               DateTime(Thursday, time_min), DateTime(Friday, time_min)),
      Override("s", "", "", "CANCELLED", DateTime(Tuesday, Noon),
               DateTime(Tuesday, Noon), NoValue),
      Override("s", "x", "", "", DateTime(Friday, Noon),
               DateTime(Friday, Noon), Broken),
      Cancellation("s", "", "", "CANCELLED", DateTime(monday_local, Noon)) }

InitSpans == InitOn(SpanComponents)
SpecSpans == InitSpans /\ [][Next]_vars

\* ------------------------------------------------------------ properties
\* the occurrence key of a segment: (uid or "summary|location", start)
SegKey(ev) ==
    DedupKey(IF "uid" \in DOMAIN ev THEN ev.uid ELSE "", ev.summary, ev.location,
             ev.start_time)
\* the positions of day d's list that hold a segment of key
SegsOf(we, d, key) == {k \in 1 .. Len(we[d]) : SegKey(we[d][k]) = key}
HasSegment(we, key) == \E d \in DOMAIN we : SegsOf(we, d, key) # {}
\* the segments of each day, as a set
SegSets(we) == [d \in DOMAIN we |-> {we[d][k] : k \in 1 .. Len(we[d])}]
\* the visible days the occurrence of a register call touches
TouchedDays(c) ==
    {d \in week_days_local :
        /\ d >= DateOf(c.start)
        /\ d <= LoopEndDate(is_all_day_component(feed[c.src]), c.start, c.end)}
IsRegister(c) == c.op = "register"
IsCancel(c) == c.op = "cancel"
\* the registry calls made by the step that leads to the next state
NewCalls == {j \in 1 .. Len(calls') : j > Len(calls)}

\* C1: whenever a registration and a cancellation of the same key have both
\* been processed, in either order, no day bucket holds a segment of that
\* key, and a registration that came after the cancellation was suppressed.
CancellationCommutes ==
    \A i, j \in 1 .. Len(calls) :
        (IsRegister(calls[i]) /\ IsCancel(calls[j]) /\ calls[i].key = calls[j].key)
        => /\ ~HasSegment(week_events, calls[i].key)
           /\ (j < i => ~calls[i].done)

\* C2: the day buckets at the end of the run, as sets of segments, are the
\* ones every other order of the same components ends with.
OrderIndependent ==
    pc = "done" =>
        \A p \in Permutations(1 .. Len(feed)) :
            SegSets(Resolve([k \in 1 .. Len(feed) |-> feed[p[k]]]))
                = SegSets(week_events)

\* C3: when a key that is not cancelled has been registered and no
\* cancellation has run since, every later registration of the key did
\* nothing, and each visible day the first registration touches holds exactly
\* one segment of the key, with the first registration's summary, location,
\* start and label (the label is computed from its start and end).
IdempotentRegistration ==
    \A i \in 1 .. Len(calls) :
        (/\ IsRegister(calls[i])
         /\ \A h \in 1 .. (i - 1) : calls[h].key # calls[i].key
         /\ \A j \in (i + 1) .. Len(calls) : ~IsCancel(calls[j]))
        => /\ \A j \in (i + 1) .. Len(calls) :
                calls[j].key = calls[i].key => ~calls[j].done
           /\ \A d \in TouchedDays(calls[i]) :
                /\ Cardinality(SegsOf(week_events, d, calls[i].key)) = 1
                /\ \A k \in SegsOf(week_events, d, calls[i].key) :
                    /\ week_events[d][k].summary = calls[i].summary
                    /\ week_events[d][k].location = calls[i].location
                    /\ week_events[d][k].start_time = calls[i].start
                    /\ week_events[d][k].time =
                         TimeStr(is_all_day_component(feed[calls[i].src]),
                                 calls[i].start, calls[i].end, d)

\* C3 witness: a key registered twice with different summaries and ends, no
\* cancellation in the run, and the occurrence on a visible day.
RegisteredTwice ==
    /\ pc = "done"
    /\ \A j \in 1 .. Len(calls) : ~IsCancel(calls[j])
    /\ \E i, j \in 1 .. Len(calls) :
        /\ i < j
        /\ \A h \in 1 .. (i - 1) : calls[h].key # calls[i].key
        /\ calls[j].key = calls[i].key
        /\ calls[j].summary # calls[i].summary
        /\ calls[j].end # calls[i].end
        /\ TouchedDays(calls[i]) # {}

\* C4 (as claimed): a register call on a key that is in the cancelled set
\* materializes the occurrence and marks the key registered.
RegisterOnCancelledMaterializes ==
    [][\A j \in NewCalls :
        (IsRegister(calls'[j]) /\ calls'[j].key \in cancelled_occurrences)
        => /\ calls'[j].done
           /\ calls'[j].key \in dedup_keys']_vars

\* C4 (amended): a register call on a key that is in the cancelled set does
\* nothing: the key stays cancelled and unregistered, and the segments of
\* the key in every bucket are what they were.
RegisterOnCancelledSuppressed ==
    [][\A j \in NewCalls :
        (IsRegister(calls'[j]) /\ calls'[j].key \in cancelled_occurrences)
        => /\ ~calls'[j].done
           /\ calls'[j].key \notin dedup_keys'
           /\ calls'[j].key \in cancelled_occurrences'
           /\ \A d \in week_days_local :
                {week_events'[d][k] : k \in SegsOf(week_events', d, calls'[j].key)}
                    = {week_events[d][k] : k \in SegsOf(week_events, d, calls'[j].key)}
      ]_vars

\* C4 witness: a register call arrived for a key cancelled before it, with an
\* occurrence that lies on a visible day.
RegisterAfterCancel ==
    \E i, j \in 1 .. Len(calls) :
        /\ i < j
        /\ IsCancel(calls[i]) /\ IsRegister(calls[j])
        /\ calls[i].key = calls[j].key
        /\ TouchedDays(calls[j]) # {}

\* ---- overrides, exclusions, additional dates, the window
\* a component the component loop expands by its rule
IsSeries(component) ==
    /\ ~IsCancelled(component) /\ ~Skipped(component)
    /\ IsSet(component.rrule)
    /\ ~Raises(component)
\* the instants its rule yields in the search window
RuleInstants(component) ==
    {rule_occurrences(component)[k] : k \in 1 .. Len(rule_occurrences(component))}
\* the key the component registers an occurrence at t under
KeyAt(component, t) ==
    DedupKey(UidOf(component), SummaryOf(component), LocationOf(component), t)
\* a register call of feed position s at instant t that materialized
Materialized(s, t) ==
    \E i \in 1 .. Len(calls) :
        /\ IsRegister(calls[i]) /\ calls[i].done
        /\ calls[i].src = s /\ calls[i].start = t

\* C5: no component of the component loop (a component without
\* RECURRENCE-ID) is materialized at an instant that the override index
\* holds under its identity, be the instant rule-generated, an additional
\* date or the component's own start.
OverriddenNeverMaterialized ==
    \A i \in 1 .. Len(calls) :
        (/\ IsRegister(calls[i]) /\ calls[i].done
         /\ ~IsSet(feed[calls[i].src].recid))
        => ~InOverrides(overrides, <<UidOf(feed[calls[i].src]), calls[i].start>>)

\* C6: at the end of the run, for every instant a series yields (by rule,
\* not excluded) that the index maps to an override which is not cancelled,
\* is readable and starts on a visible day, and whose own key is not
\* cancelled, the bucket of the override's start day holds a segment with
\* the override's summary, location, start and label.
OverridePlaced ==
    pc = "done" =>
        \A s \in 1 .. Len(feed) : \A e \in 1 .. Len(overrides) :
            LET o == overrides[e].comp
                start == to_local(o.dtstart)
                end == EndLocal(o, start)
                day == DateOf(start)
            IN  (/\ IsSeries(feed[s])
                 /\ overrides[e].key[1] = UidOf(feed[s])
                 /\ overrides[e].key[2] \in
                        RuleInstants(feed[s]) \ exdates_local(feed[s])
                 /\ ~OverrideSkipped(o) /\ ~OverrideRaises(o)
                 /\ day \in week_days_local
                 /\ KeyAt(o, start) \notin cancelled_occurrences)
                => \E k \in 1 .. Len(week_events[day]) :
                     /\ week_events[day][k].start_time = start
                     /\ week_events[day][k].summary = SummaryOf(o)
                     /\ week_events[day][k].location = LocationOf(o)
                     /\ week_events[day][k].time =
                            TimeStr(is_all_day_component(o), start, end, day)

\* C7: a cancelled component with a RECURRENCE-ID is never materialized, and
\* no series of its identity is materialized at the instant it replaces, be
\* that instant rule-generated or an additional date, wherever the two stand
\* in the feed.
CancelledOverrideAbsent ==
    \A c \in 1 .. Len(feed) :
        (IsCancelled(feed[c]) /\ IsSet(feed[c].recid))
        => /\ \A i \in 1 .. Len(calls) :
                (IsRegister(calls[i]) /\ calls[i].src = c) => ~calls[i].done
           /\ \A s \in 1 .. Len(feed) :
                (IsSeries(feed[s]) /\ UidOf(feed[s]) = UidOf(feed[c]))
                => ~Materialized(s, to_local(feed[c].recid))

\* C7 witness: the run is over; a series stands before and another after a
\* cancelled override of an instant their rule yields on a visible day.
CancelledOverrideOfInstance ==
    /\ pc = "done"
    /\ \E s1, c, s2 \in 1 .. Len(feed) :
        /\ s1 < c /\ c < s2
        /\ IsCancelled(feed[c]) /\ IsSet(feed[c].recid)
        /\ \A s \in {s1, s2} :
            /\ IsSeries(feed[s]) /\ UidOf(feed[s]) = UidOf(feed[c])
            /\ to_local(feed[c].recid) \in RuleInstants(feed[s])
            /\ DateOf(to_local(feed[c].recid)) \in week_days_local
        /\ \E t \in RuleInstants(feed[s1]) : Materialized(s1, t)

\* C8: at the end of the run, for every series and every instant its rule
\* yields that is in its exclusion set, no occurrence of the series at that
\* instant was materialized and no bucket holds a segment of its key; every
\* other instant the rule yields on a visible day, not overridden and not
\* cancelled, has its segment on that day.
ExclusionPrecedence ==
    pc = "done" =>
        \A s \in 1 .. Len(feed) :
            IsSeries(feed[s]) =>
                \A t \in RuleInstants(feed[s]) :
                    IF t \in exdates_local(feed[s])
                    THEN /\ ~Materialized(s, t)
                         /\ ~HasSegment(week_events, KeyAt(feed[s], t))
                    ELSE (/\ DateOf(t) \in week_days_local
                          /\ ~InOverrides(overrides, <<UidOf(feed[s]), t>>)
                          /\ KeyAt(feed[s], t) \notin cancelled_occurrences)
                         => SegsOf(week_events, DateOf(t), KeyAt(feed[s], t)) # {}

\* C9: an additional date of a component that equals one of the component's
\* exclusion instants is never materialized.
AdditionalDatesExcluded ==
    \A s \in 1 .. Len(feed) : \A r \in 1 .. Len(feed[s].rdate) :
        (/\ ~IsBroken(feed[s].rdate[r])
         /\ \E x \in 1 .. Len(feed[s].exdate) :
                /\ ~IsBroken(feed[s].exdate[x])
                /\ to_local(feed[s].exdate[x]) = to_local(feed[s].rdate[r]))
        => ~Materialized(s, to_local(feed[s].rdate[r]))

\* a daily series as C10 takes it
IsPlainDaily(component) ==
    /\ IsSeries(component)
    /\ component.rrule.interval = 1 /\ ~IsSet(component.rrule.until)
    /\ DateOf(to_local(component.dtstart)) < monday_local
    /\ component.exdate = <<>>
    /\ \A e \in 1 .. Len(overrides) : overrides[e].key[1] # UidOf(component)
\* C10: at the end of the run, for every daily series (interval 1, no end
\* date) that starts before Monday, has no exclusions and no override under
\* its identity, each visible day holds exactly one segment of the key of
\* the instance that starts on that day, unless that key is cancelled; and
\* every segment of the series lies in the bucket of a visible day that is
\* not before its start day, and starts inside the window.
WindowComplete ==
    pc = "done" =>
        \A s \in 1 .. Len(feed) :
            IsPlainDaily(feed[s]) =>
                /\ \A d \in week_days_local :
                    LET t == At(d, TimeOf(to_local(feed[s].dtstart)))
                    IN  KeyAt(feed[s], t) \notin cancelled_occurrences
                        => Cardinality(SegsOf(week_events, d, KeyAt(feed[s], t))) = 1
                /\ DOMAIN week_events = week_days_local
                /\ \A d \in DOMAIN week_events : \A k \in 1 .. Len(week_events[d]) :
                    (\E t \in RuleInstants(feed[s]) :
                        SegKey(week_events[d][k]) = KeyAt(feed[s], t))
                    => /\ DateOf(week_events[d][k].start_time) <= d
                       /\ week_events[d][k].start_time <= end_of_week_local_dt

\* C10 witness: the run is over and a plain daily series has a segment on
\* each of the five days, the Friday one among them.
PlainDailyWeek ==
    /\ pc = "done"
    /\ \E s \in 1 .. Len(feed) :
        /\ IsPlainDaily(feed[s])
        /\ \A d \in week_days_local :
            Materialized(s, At(d, TimeOf(to_local(feed[s].dtstart))))

\* ---- span splitting, labels, order
\* a register call that materialized an occurrence of a timed component
IsTimedDone(c) ==
    IsRegister(c) /\ c.done /\ ~is_all_day_component(feed[c.src])
\* a timed occurrence that starts on a visible day and ends at 00:00 of the
\* day after
EndsNextMidnight(c) ==
    /\ IsTimedDone(c)
    /\ DateOf(c.start) \in week_days_local
    /\ c.end = At(DateOf(c.start) + 1, time_min)

\* C11: the step that materializes a timed occurrence which starts on
\* visible day D at time t and ends at 00:00 of D+1 leaves exactly one
\* segment of the occurrence in the bucket of D and none in any other
\* bucket; the segment is flagged and labelled all-day iff t is 00:00, and
\* otherwise labelled "t - 00:00" and not flagged.
MidnightEndOneSegment ==
    [][\A j \in NewCalls :
        EndsNextMidnight(calls'[j]) =>
            LET c == calls'[j]
                D == DateOf(c.start)
            IN  /\ Cardinality(SegsOf(week_events', D, c.key)) = 1
                /\ \A d \in DOMAIN week_events' \ {D} :
                        SegsOf(week_events', d, c.key) = {}
                /\ \A k \in SegsOf(week_events', D, c.key) :
                    LET ev == week_events'[D][k]
                    IN  /\ ev.start_time = c.start
                        /\ ev.is_all_day = (TimeOf(c.start) = time_min)
                        /\ ev.time = IF TimeOf(c.start) = time_min
                                     THEN "Ganztaegig"
                                     ELSE FmtHM(c.start) \o " - 00:00"
      ]_vars

\* C11 witness: two timed occurrences ending at 00:00 of the day after their
\* start were materialized, one starting at 00:00 and one later in the day,
\* with the day after the start visible as well.
MidnightEndBothStarts ==
    \E i, j \in 1 .. Len(calls) :
        /\ EndsNextMidnight(calls[i]) /\ EndsNextMidnight(calls[j])
        /\ TimeOf(calls[i].start) = time_min
        /\ TimeOf(calls[j].start) # time_min
        /\ DateOf(calls[i].start) + 1 \in week_days_local
        /\ DateOf(calls[j].start) + 1 \in week_days_local

\* an all-day occurrence with start date S and end date E > S, materialized
IsAllDaySpan(c) ==
    /\ IsRegister(c) /\ c.done /\ is_all_day_component(feed[c.src])
    /\ TimeOf(c.start) = time_min /\ TimeOf(c.end) = time_min
    /\ DateOf(c.end) > DateOf(c.start)

\* C12: the step that materializes an all-day occurrence with start date S
\* and end date E > S leaves exactly one segment of it, flagged and labelled
\* all-day, in the bucket of every visible day from S to the day before E,
\* and no segment of it in the bucket of E or of any other day.
AllDayEndExclusive ==
    [][\A j \in NewCalls :
        IsAllDaySpan(calls'[j]) =>
            LET c == calls'[j]
            IN  /\ DOMAIN week_events' = week_days_local
                /\ \A d \in week_days_local :
                    IF DateOf(c.start) <= d /\ d < DateOf(c.end)
                    THEN /\ Cardinality(SegsOf(week_events', d, c.key)) = 1
                         /\ \A k \in SegsOf(week_events', d, c.key) :
                                /\ week_events'[d][k].is_all_day
                                /\ week_events'[d][k].time = "Ganztaegig"
                                /\ week_events'[d][k].start_time = c.start
                    ELSE SegsOf(week_events', d, c.key) = {}
      ]_vars

\* C12 witness: two all-day occurrences were materialized, one from Thursday
\* to Saturday (exclusive), one that starts before the week and whose end
\* date is a visible day.
AllDaySpansPlaced ==
    \E i, j \in 1 .. Len(calls) :
        /\ IsAllDaySpan(calls[i]) /\ IsAllDaySpan(calls[j])
        /\ DateOf(calls[i].start) = Thursday /\ DateOf(calls[i].end) = Saturday
        /\ DateOf(calls[j].start) < monday_local
        /\ DateOf(calls[j].end) \in week_days_local

\* the three parts of the sort key of a segment
KeyFlag(ev) == IF ev.is_all_day THEN 0 ELSE 1
KeySummary(ev) == StrRank(Lower(ev.summary))
SameSortKey(a, b) ==
    /\ KeyFlag(a) = KeyFlag(b)
    /\ a.start_time = b.start_time
    /\ KeySummary(a) = KeySummary(b)

\* C13: the rendering step leaves every visible day's list ordered: an
\* all-day segment before every timed one, equal flags by ascending start
\* instant, equal starts by lower-cased summary; and the segments that are
\* equal on all three stand in the order they had before the step, so the
\* list holds the segments it held.
SortedStably ==
    [][(pc = "render" /\ pc' = "done") =>
        \A d \in week_days_local :
            LET old == week_events[d]
                new == week_events'[d]
            IN  /\ Len(new) = Len(old)
                /\ \A i, j \in 1 .. Len(new) :
                    i < j =>
                        /\ (new[j].is_all_day => new[i].is_all_day)
                        /\ (new[i].is_all_day = new[j].is_all_day
                                => new[i].start_time <= new[j].start_time)
                        /\ (/\ new[i].is_all_day = new[j].is_all_day
                            /\ new[i].start_time = new[j].start_time)
                                => KeySummary(new[i]) <= KeySummary(new[j])
                /\ \A k \in 1 .. Len(old) :
                    LET same(ev) == SameSortKey(ev, old[k])
                    IN  SelectSeq(new, same) = SelectSeq(old, same)
      ]_vars

\* C13 witness: the run is over and one day's list holds an all-day segment
\* that starts later than a timed segment of the list, two segments that
\* differ in the start only, and two distinct segments equal on all three
\* parts of the key whose summaries differ in case.
MixedDayRendered ==
    /\ pc = "done"
    /\ \E d \in week_days_local : \E i, j \in 1 .. Len(week_events[d]) :
        /\ week_events[d][i].is_all_day /\ ~week_events[d][j].is_all_day
        /\ week_events[d][i].start_time > week_events[d][j].start_time
    /\ \E d \in week_days_local : \E i, j \in 1 .. Len(week_events[d]) :
        /\ SameSortKey(week_events[d][i], week_events[d][j])
        /\ week_events[d][i].summary # week_events[d][j].summary
        /\ Lower(week_events[d][i].summary) = Lower(week_events[d][j].summary)

\* ---- cancellation: what it removes and what it leaves
\* the cancelling component and the series have the same identity
SameIdentity(canceller, component) ==
    /\ UidOf(canceller) = UidOf(component)
    /\ UidOf(canceller) = "" =>
            /\ SummaryOf(canceller) = SummaryOf(component)
            /\ LocationOf(canceller) = LocationOf(component)
\* the segments of day d's list that belong to key, in list order
SegSeq(we, d, key) ==
    LET of_key(ev) == SegKey(ev) = key
    IN  SelectSeq(we[d], of_key)

\* C14: the step of a cancellation with the identity of a series and the
\* start of one of its generated instances leaves no segment of that
\* instance in any bucket, and leaves the segments of every other instance
\* of the series in every bucket as they were.
CancelOneInstance ==
    [][\A j \in NewCalls : \A s \in 1 .. Len(feed) :
        (/\ IsCancel(calls'[j])
         /\ IsSeries(feed[s])
         /\ SameIdentity(feed[calls'[j].src], feed[s])
         /\ calls'[j].start \in RuleInstants(feed[s]))
        => /\ ~HasSegment(week_events', KeyAt(feed[s], calls'[j].start))
           /\ \A t \in RuleInstants(feed[s]) \ {calls'[j].start} :
                \A d \in week_days_local :
                    SegSeq(week_events', d, KeyAt(feed[s], t))
                        = SegSeq(week_events, d, KeyAt(feed[s], t))
      ]_vars

\* C14 witness: a series materialized an instance that lies on two visible
\* days and another instance; a cancellation of the first one, with the
\* identity of the series, ran after that, and segments of the other
\* instance are in the buckets.
InstanceCancelledAfterSeries ==
    \E i, h, j \in 1 .. Len(calls) :
        /\ i < j /\ h < j
        /\ IsCancel(calls[j])
        /\ IsRegister(calls[i]) /\ calls[i].done
        /\ IsRegister(calls[h]) /\ calls[h].done
        /\ calls[h].src = calls[i].src
        /\ IsSeries(feed[calls[i].src])
        /\ SameIdentity(feed[calls[j].src], feed[calls[i].src])
        /\ calls[i].start = calls[j].start
        /\ calls[h].start # calls[j].start
        /\ Cardinality(TouchedDays(calls[i])) = 2
        /\ HasSegment(week_events, calls[h].key)

\* ---- failures
\* feed position s raised in the component loop or in the override loop
HasFailed(s) == \E e \in 1 .. Len(stderr) : stderr[e] = s
\* a component the component loop answers with at least one registry call
AlwaysCalls(component) ==
    /\ ~Skipped(component) /\ ~Raises(component)
    /\ (IsCancelled(component) \/ ~IsSet(component.rrule))

\* C15: at the end of the run, for every component that raised, every
\* component that stands after it in the feed was still processed, and no
\* bucket holds a segment of an occurrence the failed component registered
\* before it raised.
FailureDropsComponent ==
    pc = "done" =>
        \A f \in 1 .. Len(feed) :
            HasFailed(f) =>
                /\ \A s \in (f + 1) .. Len(feed) :
                        AlwaysCalls(feed[s])
                        => \E i \in 1 .. Len(calls) : calls[i].src = s
                /\ \A i \in 1 .. Len(calls) :
                        (IsRegister(calls[i]) /\ calls[i].done /\ calls[i].src = f)
                        => ~HasSegment(week_events, calls[i].key)

\* C16: in every reachable state no bucket holds a segment whose occurrence
\* key (uid, or "summary|location" when the uid is empty, with the start
\* instant) is in the cancelled set; so after the cancel of a registered key
\* whose occurrence lies on several visible days none of their buckets
\* holds a segment of it.
NoCancelledSegment ==
    \A d \in DOMAIN week_events : \A k \in 1 .. Len(week_events[d]) :
        SegKey(week_events[d][k]) \notin cancelled_occurrences

\* ---- the search window and the days of an instance
\* the instants the rule of a series yields up to the end of Saturday
RuleYields(component) ==
    {t \in to_local(component.dtstart) .. At(Saturday + 1, time_min) :
        /\ (t - to_local(component.dtstart))
                % (component.rrule.interval * SlotsPerDay) = 0
        /\ (IsSet(component.rrule.until) => t <= to_local(component.rrule.until))}
\* the interval [t, t + duration) meets day d
OverlapsDay(t, duration, d) ==
    t < At(d + 1, time_min) /\ t + duration > At(d, time_min)
\* no cancellation of an occurrence that starts at t was processed
NotCancelledAt(t) == \A i \in 1 .. Len(calls) : IsCancel(calls[i]) => calls[i].start # t
\* only feed position s registered under key
OnlyRegisteredBy(s, key) ==
    \A i \in 1 .. Len(calls) :
        (IsRegister(calls[i]) /\ calls[i].key = key) => calls[i].src = s

\* C17: at the end of the run, for every series with positive duration the
\* instants taken from the rule are those it yields from Monday 00:00 minus
\* the duration to the end of the window, and every instant the rule
\* yields, not excluded and not overridden, whose interval
\* [start, start + duration) meets a visible day is handed to the registry
\* with that interval and has a segment of its key in the bucket of that
\* day, also when it starts before Monday 00:00 (the segment is there as
\* long as nothing cancelled an occurrence at that instant and no other
\* component registered the key).
WindowPulledBack ==
    pc = "done" =>
        \A s \in 1 .. Len(feed) :
            (IsSeries(feed[s]) /\ DurationOf(feed[s]) > 0) =>
                /\ RuleInstants(feed[s]) =
                        {t \in RuleYields(feed[s]) :
                            /\ t >= At(monday_local, time_min) - DurationOf(feed[s])
                            /\ t <= end_of_week_local_dt}
                /\ \A t \in RuleYields(feed[s]) : \A d \in week_days_local :
                        (/\ OverlapsDay(t, DurationOf(feed[s]), d)
                         /\ t \notin exdates_local(feed[s])
                         /\ ~InOverrides(overrides, <<UidOf(feed[s]), t>>))
                        => /\ \E i \in 1 .. Len(calls) :
                                /\ IsRegister(calls[i]) /\ calls[i].src = s
                                /\ calls[i].start = t
                                /\ calls[i].end = t + DurationOf(feed[s])
                           /\ (/\ NotCancelledAt(t)
                               /\ OnlyRegisteredBy(s, KeyAt(feed[s], t)))
                              => SegsOf(week_events, d, KeyAt(feed[s], t)) # {}

\* C17 witness: the run is over, and a series with positive duration has an
\* instance that starts before Monday 00:00, runs into Monday and has its
\* segment in Monday's bucket.
OvernightIntoMonday ==
    /\ pc = "done"
    /\ \E s \in 1 .. Len(feed) :
        /\ IsSeries(feed[s]) /\ DurationOf(feed[s]) > 0
        /\ \E t \in RuleYields(feed[s]) :
            /\ t < At(monday_local, time_min)
            /\ OverlapsDay(t, DurationOf(feed[s]), monday_local)
            /\ NotCancelledAt(t)
            /\ OnlyRegisteredBy(s, KeyAt(feed[s], t))
            /\ SegsOf(week_events, monday_local, KeyAt(feed[s], t)) # {}

\* C18: the step that materializes a timed occurrence which starts on a
\* visible day leaves, in the bucket of the start day, a segment labelled
\* "Start: <start time>" when the end date is two or more days after the
\* start date; and when the end date is after the start date, the segment
\* carries the midnight range label ("<start> - 00:00", or all-day) only if
\* the occurrence ends at 00:00 of the day directly after the start day.
StartLabelOnLongSpans ==
    [][\A j \in NewCalls :
        LET c == calls'[j]
            D == DateOf(c.start)
        IN  (/\ IsTimedDone(c)
             /\ D \in week_days_local
             /\ DateOf(c.end) > D)
            => \A k \in SegsOf(week_events', D, c.key) :
                /\ DateOf(c.end) >= D + 2
                        => week_events'[D][k].time = "Start: " \o FmtHM(c.start)
                /\ week_events'[D][k].time \in
                            {FmtHM(c.start) \o " - 00:00", "Ganztaegig"}
                        => c.end = At(D + 1, time_min)
      ]_vars

\* ---- the two key sets
\* C19: in every reachable state the registered keys and the cancelled keys
\* are disjoint; and no step takes a key out of the cancelled set: a
\* cancelled key stays cancelled to the end of the run, and a registration
\* that comes for it leaves it unregistered.
KeySetsDisjoint ==
    /\ [](dedup_keys \cap cancelled_occurrences = {})
    /\ [][/\ cancelled_occurrences \subseteq cancelled_occurrences'
          /\ \A j \in NewCalls :
                (IsRegister(calls'[j]) /\ calls'[j].key \in cancelled_occurrences)
                => calls'[j].key \notin dedup_keys']_vars

\* C19 witness: a key was registered, then cancelled, then a registration
\* came for it again, while another key is registered.
CancelledBetweenRegistrations ==
    /\ dedup_keys # {}
    /\ \E i, j, k \in 1 .. Len(calls) :
        /\ i < j /\ j < k
        /\ IsRegister(calls[i]) /\ calls[i].done
        /\ IsCancel(calls[j]) /\ IsRegister(calls[k])
        /\ calls[j].key = calls[i].key /\ calls[k].key = calls[i].key
        /\ calls[i].key \in cancelled_occurrences

\* C20: the step of a cancellation for key k leaves the segments of every
\* other key in every bucket as they were, also the segments of an
\* occurrence registered under a uid when the cancellation has no uid and
\* has the summary, location and start of that occurrence.
CancelLeavesOtherKeys ==
    [][\A j \in NewCalls :
        IsCancel(calls'[j]) =>
            \A d \in DOMAIN week_events : \A k \in 1 .. Len(week_events[d]) :
                SegKey(week_events[d][k]) # calls'[j].key
                => SegSeq(week_events', d, SegKey(week_events[d][k]))
                        = SegSeq(week_events, d, SegKey(week_events[d][k]))
      ]_vars

====
